---- MODULE Spec2Model ----
(***************************************************************************)
(* A model of blog.py: the Entry datastore kind, the memcache entry of the *)
(* home listing, the administrator decorator and the request handlers.     *)
(* Every datastore or memcache call of a handler is one atomic step of the *)
(* request that makes it; requests of different processes interleave       *)
(* between these calls.  Strings that the code transforms (titles, slugs,  *)
(* tags) are sequences of one-character strings.                           *)
(***************************************************************************)
EXTENDS Integers, Sequences, FiniteSets, TLC

VARIABLES store, cache, clock, pc, req, loc, last, nreq, races, ver, doneVer,
          deleted

vars == <<store, cache, clock, pc, req, loc, last, nreq, races, ver, doneVer,
          deleted>>

(***************************************************************************)
(* Bounds of the model.                                                    *)
(***************************************************************************)
MaxEntries == 2
MaxReq == 4
MaxRaces == 1

Procs == {"p1", "p2"}

(***************************************************************************)
(* Values of request arguments.  A key or cursor argument is an integer:   *)
(* a positive one is well formed, NoArg is the absent argument (None) and  *)
(* Malformed is one the datastore rejects (BadKeyError, BadValueError).    *)
(***************************************************************************)
NoArg == 0
Malformed == -1

num_home == 5
num_archive == 10

Keys == 1..MaxEntries
KeyArgs == Keys \cup {Malformed}
CursorArgs == {NoArg, Malformed}
ArchiveCursorArgs == CursorArgs \cup {2}

Titles == { <<"A", "!", "e-acute">>, <<"?">> }
TagsArgs == { <<"T", ",", " ", "t">> }
HiddenArgs == { <<>>, <<"1">> }
TagPaths == { <<"t">> }
SlugPaths == { <<"a", "-", "e">> }
Suffixes == { <<"0", "a">>, <<"f", "3">> }
PingTargets == {"blogsearch", "friendfeed", "feedburner", "pubsubhubbub"}

AdminRoutes == {"compose", "delete", "hide"}
Users == {"anonymous", "reader", "admin"}

(***************************************************************************)
(* BaseHandler.slugify                                                     *)
(***************************************************************************)
\* The characters of the model are one-character strings, and two characters
\* outside ASCII written by name: "e-acute" (U+00E9) and "combining-acute"
\* (U+0301, what NFKD splits off it).
IsAscii(c) == c \notin {"e-acute", "combining-acute"}

\* unicodedata.normalize("NFKD", c) of one character
Decomposed(c) ==
    IF c = "e-acute" THEN <<"e", "combining-acute">>
    ELSE <<c>>

\* \w of an ASCII regular expression
IsWord(c) == c \in {"a", "e", "t", "u", "A", "T", "0", "1", "3", "f", "_"}

Lower(c) == IF c = "A" THEN "a" ELSE IF c = "T" THEN "t" ELSE c

RECURSIVE Normalize(_)
Normalize(s) == IF s = <<>> THEN <<>> ELSE Decomposed(Head(s)) \o Normalize(Tail(s))

\* .encode("ascii", "ignore")
RECURSIVE EncodeAscii(_)
EncodeAscii(s) ==
    IF s = <<>> THEN <<>>
    ELSE (IF IsAscii(Head(s)) THEN <<Head(s)>> ELSE <<>>) \o EncodeAscii(Tail(s))

\* re.sub(r"[^\w]+", " ", slug).lower()
RECURSIVE Blanked(_)
Blanked(s) ==
    IF s = <<>> THEN <<>>
    ELSE (IF IsWord(Head(s)) THEN <<Lower(Head(s))>> ELSE <<" ">>) \o Blanked(Tail(s))

\* str.split(): the words between runs of blanks (cur is the word being read)
RECURSIVE Words(_, _)
Words(s, cur) ==
    IF s = <<>> THEN (IF cur = <<>> THEN <<>> ELSE <<cur>>)
    ELSE IF Head(s) = " "
         THEN (IF cur = <<>> THEN <<>> ELSE <<cur>>) \o Words(Tail(s), <<>>)
         ELSE Words(Tail(s), Append(cur, Head(s)))

\* "-".join(words)
RECURSIVE Join(_)
Join(ws) ==
    IF ws = <<>> THEN <<>>
    ELSE IF Len(ws) = 1 THEN ws[1]
    ELSE ws[1] \o <<"-">> \o Join(Tail(ws))

slugify(value) == Join(Words(Blanked(EncodeAscii(Normalize(value))), <<>>))

\* str.split(","): the pieces between commas, empty pieces kept
RECURSIVE SplitComma(_, _)
SplitComma(s, cur) ==
    IF s = <<>> THEN <<cur>>
    ELSE IF Head(s) = ","
         THEN <<cur>> \o SplitComma(Tail(s), <<>>)
         ELSE SplitComma(Tail(s), Append(cur, Head(s)))

\* the tags ComposeHandler.post stores for a tags argument
TagsOf(arg) ==
    LET pieces == SplitComma(arg, <<>>)
        slugs == { slugify(pieces[i]) : i \in 1..Len(pieces) }
    IN  { t \in slugs : t # <<>> }

\* bool(value) of a string argument (the default False is the absent argument)
Truthy(arg) == arg # <<>>

(***************************************************************************)
(* The Entry kind and the datastore queries                                *)
(***************************************************************************)
\* Entry.get(key) of a well-formed key that names no entity: None
None == [key |-> NoArg, title |-> <<>>, slug |-> <<>>, hidden |-> FALSE,
         tags |-> {}, published |-> 0]

Max(a, b) == IF a >= b THEN a ELSE b
Min(a, b) == IF a <= b THEN a ELSE b

\* .order("-published")
RECURSIVE OrderPublishedDesc(_)
OrderPublishedDesc(S) ==
    IF S = {} THEN <<>>
    ELSE LET m == CHOOSE e \in S : \A f \in S : f.published <= e.published
         IN  <<m>> \o OrderPublishedDesc(S \ {m})

\* Entry.get(key): the entity, None, or BadKeyError for a malformed key
BadKeyError(key) == key = Malformed

EntryGet(key) ==
    IF \E e \in store : e.key = key
    THEN CHOOSE e \in store : e.key = key
    ELSE None

\* entry.put(): the entity replaces the stored one of the same key
Put(entry) == { e \in store : e.key # entry.key } \cup {entry}

\* q.with_cursor(cursor) raises db.BadRequestError or db.BadValueError
CursorRejected(cursor) == cursor = Malformed

\* db.Query(Entry).filter("hidden =", False).order("-published"), from the
\* cursor on when one was set: a cursor is the published value of the last
\* entry fetched before it
VisibleFrom(cursor) ==
    LET q == { e \in store : ~e.hidden }
    IN  OrderPublishedDesc(IF cursor = NoArg THEN q
                           ELSE { e \in q : e.published < cursor })

\* entries = q.fetch(limit); new_cursor = q.cursor() if len(entries) == limit
Fetch(cursor, limit) ==
    LET all == VisibleFrom(IF CursorRejected(cursor) THEN NoArg ELSE cursor)
        entries == SubSeq(all, 1, Min(limit, Len(all)))
    IN  [entries |-> entries,
         cursor |-> IF Len(entries) = limit
                    THEN entries[Len(entries)].published ELSE NoArg,
         ver |-> ver]

\* db.Query(Entry).filter("hidden =", False).filter("tags =", tag)
TagQuery(tag) ==
    OrderPublishedDesc({ e \in store : ~e.hidden /\ tag \in e.tags })

\* db.Query(Entry).filter("slug =", slug).get()
SlugQuery(slug) == { e \in store : e.slug = slug }

\* memcache.get(cache_key) found a value
CacheHit(cache_key) == cache_key \in DOMAIN cache

\* memcache.add(cache_key, value): stores only when the key holds nothing
MemcacheAdd(cache_key, value) ==
    IF cache_key \in DOMAIN cache THEN cache
    ELSE [k \in DOMAIN cache \cup {cache_key} |->
            IF k = cache_key THEN value ELSE cache[k]]

\* memcache.delete(cache_key)
MemcacheDelete(cache_key) == [k \in DOMAIN cache \ {cache_key} |-> cache[k]]

(***************************************************************************)
(* administrator: what the decorator does with a request                   *)
(***************************************************************************)
\* a decorator that only asks for a signed-in user
administrator_signed_in(method, user) ==
    IF user = "anonymous"
    THEN (IF method = "GET" THEN "login" ELSE "403")
    ELSE "run"

administrator(method, user) ==
    IF user = "anonymous"
    THEN (IF method = "GET" THEN "login" ELSE "403")
    ELSE IF user # "admin" THEN "403"
    ELSE "run"

(***************************************************************************)
(* BaseHandler.ping: the exception that leaves ping() when the fetches to  *)
(* the targets in failed raise (every fetch is inside try/except: pass)    *)
(***************************************************************************)
\* a ping() whose last fetch is outside any try/except
ping_last_unguarded(failed) ==
    IF "pubsubhubbub" \in failed THEN "DownloadError" ELSE "none"

ping(failed) == "none"

(***************************************************************************)
(* Requests, the locals of a request in flight and responses               *)
(***************************************************************************)
NoReq == [route |-> "none", method |-> "GET", user |-> "anonymous",
          key |-> NoArg, cursor |-> NoArg, title |-> <<>>, tags |-> <<>>,
          hidden |-> <<>>, unhide |-> <<>>, path |-> <<>>]

NoLoc == [entry |-> None, slug |-> <<>>, original_slug |-> <<>>,
          fetched |-> [entries |-> <<>>, cursor |-> NoArg, ver |-> 0],
          trace |-> <<>>, startDone |-> 0, startDeleted |-> {}, myVer |-> 0]

NoResp == [req |-> NoReq, status |-> 0, location |-> <<>>, entries |-> <<>>,
           cursor |-> NoArg, ver |-> 0, got |-> "none", trace |-> <<>>,
           failed |-> {}, startDone |-> 0, startDeleted |-> {}]

Init ==
    /\ store = {}
    /\ cache = [k \in {} |-> NoLoc.fetched]
    /\ clock = 1
    /\ pc = [p \in Procs |-> "idle"]
    /\ req = [p \in Procs |-> NoReq]
    /\ loc = [p \in Procs |-> NoLoc]
    /\ last = NoResp
    /\ nreq = 0
    /\ races = 0
    /\ ver = 0
    /\ doneVer = 0
    /\ deleted = {}

\* no other request is in flight
Alone(p) == \A q \in Procs \ {p} : pc[q] = "idle"

\* A request arrives at an idle process; races counts the requests that
\* arrived while another was in flight.
Arrives(p) ==
    /\ pc[p] = "idle"
    /\ nreq < MaxReq
    /\ nreq' = nreq + 1
    /\ Alone(p) \/ races < MaxRaces
    /\ races' = IF Alone(p) THEN races ELSE races + 1

ArrivedLoc == [NoLoc EXCEPT !.startDone = doneVer, !.startDeleted = deleted]

\* A request in flight takes its next step.
Resumes(p, label) ==
    /\ pc[p] = label
    /\ nreq' = nreq
    /\ races' = races

\* The request r of p goes on at the label next with locals l.
Continue(p, r, next, l) ==
    /\ pc' = [pc EXCEPT ![p] = next]
    /\ req' = [req EXCEPT ![p] = r]
    /\ loc' = [loc EXCEPT ![p] = l]
    /\ last' = NoResp
    /\ doneVer' = doneVer

\* The request r of p ends with the response resp (l: its locals at the end).
Respond(p, r, l, resp) ==
    /\ pc' = [pc EXCEPT ![p] = "idle"]
    /\ req' = [req EXCEPT ![p] = NoReq]
    /\ loc' = [loc EXCEPT ![p] = NoLoc]
    /\ last' = [resp EXCEPT !.req = r, !.trace = l.trace,
                            !.startDone = l.startDone,
                            !.startDeleted = l.startDeleted]
    /\ doneVer' = Max(doneVer, l.myVer)

Redirect(location) == [NoResp EXCEPT !.status = 302, !.location = location]
HTTPError(status) == [NoResp EXCEPT !.status = status]
Render(listing) == [NoResp EXCEPT !.status = 200, !.entries = listing.entries,
                                  !.cursor = listing.cursor, !.ver = listing.ver]

Did(l, what) == [l EXCEPT !.trace = Append(l.trace, what)]

(***************************************************************************)
(* The administrator decorator turns a request away                        *)
(***************************************************************************)
AdministratorDenies(p) ==
    /\ Arrives(p)
    /\ \E route \in AdminRoutes, method \in {"GET", "POST"}, user \in Users :
         LET r == [NoReq EXCEPT !.route = route, !.method = method,
                                        !.user = user]
             outcome == administrator(method, user)
         IN  /\ outcome # "run"
             /\ Respond(p, r, ArrivedLoc,
                        IF outcome = "login" THEN Redirect(<<"login">>)
                        ELSE HTTPError(403))
    /\ UNCHANGED <<store, cache, clock, ver, deleted>>

(***************************************************************************)
(* HomeHandler.get                                                         *)
(***************************************************************************)
\* cache_key = 'home_entries:%s:%s' % (cursor, limit); memcache.get(cache_key)
HomeGet(p) ==
    /\ Arrives(p)
    /\ \E cursor \in CursorArgs :
         LET r == [NoReq EXCEPT !.route = "home", !.cursor = cursor]
         IN  IF CacheHit(cursor)
             THEN Respond(p, r, ArrivedLoc, Render(cache[cursor]))
             ELSE Continue(p, r, "home_fetch", ArrivedLoc)
    /\ UNCHANGED <<store, cache, clock, ver, deleted>>

\* q.with_cursor(cursor); entries = q.fetch(limit=limit)
HomeFetch(p) ==
    /\ Resumes(p, "home_fetch")
    /\ Continue(p, req[p], "home_add",
                [loc[p] EXCEPT !.fetched = Fetch(req[p].cursor, num_home)])
    /\ UNCHANGED <<store, cache, clock, ver, deleted>>

\* memcache.add(cache_key, (entries, new_cursor)); self.render(...)
HomeAdd(p) ==
    /\ Resumes(p, "home_add")
    /\ cache' = MemcacheAdd(req[p].cursor, loc[p].fetched)
    /\ Respond(p, req[p], loc[p], Render(loc[p].fetched))
    /\ UNCHANGED <<store, clock, ver, deleted>>

(***************************************************************************)
(* RecentEntriesModule.render                                              *)
(***************************************************************************)
RecentEntries(p) ==
    /\ Arrives(p)
    /\ LET r == [NoReq EXCEPT !.route = "recent"]
       IN  IF CacheHit(NoArg)
           THEN Respond(p, r, ArrivedLoc, Render(cache[NoArg]))
           ELSE Continue(p, r, "recent_fetch", ArrivedLoc)
    /\ UNCHANGED <<store, cache, clock, ver, deleted>>

RecentFetch(p) ==
    /\ Resumes(p, "recent_fetch")
    /\ Respond(p, req[p], loc[p],
               Render([Fetch(NoArg, num_home) EXCEPT !.cursor = NoArg]))
    /\ UNCHANGED <<store, cache, clock, ver, deleted>>

(***************************************************************************)
(* ArchiveHandler.get, TagHandler.get, CatchAllHandler                     *)
(***************************************************************************)
ArchiveGet(p) ==
    /\ Arrives(p)
    /\ \E cursor \in ArchiveCursorArgs :
         Respond(p, [NoReq EXCEPT !.route = "archive", !.cursor = cursor],
                 ArrivedLoc, Render(Fetch(cursor, num_archive)))
    /\ UNCHANGED <<store, cache, clock, ver, deleted>>

TagGet(p) ==
    /\ Arrives(p)
    /\ \E tag \in TagPaths :
         Respond(p, [NoReq EXCEPT !.route = "tag", !.path = tag],
                 ArrivedLoc,
                 Render([entries |-> TagQuery(tag), cursor |-> NoArg, ver |-> ver]))
    /\ UNCHANGED <<store, cache, clock, ver, deleted>>

\* self.entry = db.Query(Entry).filter("slug =", slug).get(), then get()
CatchAllGet(p) ==
    /\ Arrives(p)
    /\ \E slug \in SlugPaths \cup { e.slug : e \in store } :
         LET r == [NoReq EXCEPT !.route = "entry", !.path = slug]
             found == SlugQuery(slug)
         IN  /\ IF found = {}
                THEN Respond(p, r, ArrivedLoc, HTTPError(404))
                ELSE \E entry \in found :
                       Respond(p, r, ArrivedLoc,
                               Render([entries |-> <<entry>>, cursor |-> NoArg,
                                       ver |-> ver]))
    /\ UNCHANGED <<store, cache, clock, ver, deleted>>

(***************************************************************************)
(* Admin(r): the decorator lets the request r through to the handler       *)
(***************************************************************************)
Admin(r) == administrator(r.method, r.user) = "run"

AdminRequest(route, method, user, key) ==
    [NoReq EXCEPT !.route = route, !.method = method, !.user = user,
                  !.key = key]

\* The status of a page whose template is rendered with entry = None: the
\* templates are not part of the source, so either outcome is possible.
RenderedWithNone == {200, 500}

(***************************************************************************)
(* ComposeHandler.get, DeleteHandler.get, HideHandler.get                  *)
(***************************************************************************)
EditorGet(p) ==
    /\ Arrives(p)
    /\ \E route \in AdminRoutes, user \in Users, key \in KeyArgs \cup {NoArg} :
         LET r == AdminRequest(route, "GET", user, key)
             entry == IF key = NoArg \/ BadKeyError(key) THEN None
                      ELSE EntryGet(key)
             got == IF key = NoArg THEN "none"
                    ELSE IF BadKeyError(key) THEN "BadKeyError"
                    ELSE IF entry = None THEN "None" ELSE "entity"
         IN  /\ Admin(r)
             /\ route # "compose" => key # NoArg
             /\ IF route # "compose" /\ BadKeyError(key)
                THEN Respond(p, r, ArrivedLoc, [HTTPError(404) EXCEPT !.got = got])
                ELSE IF route # "compose" /\ entry = None
                THEN \E status \in RenderedWithNone :
                       Respond(p, r, ArrivedLoc, [HTTPError(status) EXCEPT !.got = got])
                ELSE Respond(p, r, ArrivedLoc, [HTTPError(200) EXCEPT !.got = got])
    /\ UNCHANGED <<store, cache, clock, ver, deleted>>

(***************************************************************************)
(* ComposeHandler.post                                                     *)
(***************************************************************************)
\* a test that, like the listing queries, only sees entries not hidden
SlugTakenVisible(slug) == \E e \in SlugQuery(slug) : ~e.hidden

\* while db.Query(Entry).filter("slug = ", slug).get():
SlugTaken(slug) == SlugQuery(slug) # {}

\* the requests in flight that will store a new entity
Creating == { q \in Procs : pc[q] \in {"compose_slug", "compose_put"}
                            /\ req[q].key = NoArg }

\* tags, hidden and the fields of an edit, set on the entity before put()
Composed(entry, r) ==
    [entry EXCEPT !.tags = TagsOf(r.tags), !.hidden = Truthy(r.hidden)]

\* One test of the while loop for the slug in l: a taken slug gets a new
\* suffix (uuid.uuid4().hex[:2]) and is tested again, a free one is used.
SlugLoop(p, r, l) ==
    IF SlugTaken(l.slug)
    THEN \E suffix \in Suffixes :
           Continue(p, r, "compose_slug",
                    [l EXCEPT !.slug = l.original_slug \o <<"-">> \o suffix])
    ELSE Continue(p, r, "compose_put",
                  [l EXCEPT !.entry = Composed([None EXCEPT !.slug = l.slug,
                                                            !.title = r.title], r)])

ComposePost(p) ==
    /\ Arrives(p)
    /\ \E user \in Users, key \in KeyArgs \cup {NoArg}, title \in Titles,
          tags \in TagsArgs, hidden \in HiddenArgs :
         LET r == [AdminRequest("compose", "POST", user, key) EXCEPT
                     !.title = title, !.tags = tags, !.hidden = hidden]
             slug == IF slugify(title) = <<>> THEN <<"e", "n", "t", "r", "y">>
                     ELSE slugify(title)
         IN  /\ Admin(r)
             /\ IF key # NoArg
                THEN IF BadKeyError(key)
                     THEN Respond(p, r, ArrivedLoc,
                                  [Redirect(<<"/">>) EXCEPT !.got = "BadKeyError"])
                     ELSE IF EntryGet(key) = None
                     THEN Respond(p, r, ArrivedLoc,
                                  [HTTPError(500) EXCEPT !.got = "None"])
                     ELSE Continue(p, r, "compose_put",
                             [ArrivedLoc EXCEPT !.entry =
                                Composed([EntryGet(key) EXCEPT !.title = title], r)])
                ELSE /\ clock + Cardinality(Creating) <= MaxEntries
                     /\ SlugLoop(p, r, [ArrivedLoc EXCEPT !.slug = slug,
                                                          !.original_slug = slug])
    /\ UNCHANGED <<store, cache, clock, ver, deleted>>

ComposeSlug(p) ==
    /\ Resumes(p, "compose_slug")
    /\ SlugLoop(p, req[p], loc[p])
    /\ UNCHANGED <<store, cache, clock, ver, deleted>>

\* entry.put(): a new entity gets its key and its published time here
ComposePut(p) ==
    /\ Resumes(p, "compose_put")
    /\ LET entry == IF req[p].key = NoArg
                    THEN [loc[p].entry EXCEPT !.key = clock, !.published = clock]
                    ELSE loc[p].entry
       IN  /\ store' = Put(entry)
           /\ clock' = IF req[p].key = NoArg THEN clock + 1 ELSE clock
           /\ ver' = ver + 1
           /\ Continue(p, req[p], "compose_uncache",
                       Did([loc[p] EXCEPT !.entry = entry, !.myVer = ver + 1], "put"))
    /\ UNCHANGED <<cache, deleted>>

\* memcache.delete('home_entries:%s:%s' % (None, num_home))
ComposeUncache(p) ==
    /\ Resumes(p, "compose_uncache")
    /\ cache' = MemcacheDelete(NoArg)
    /\ Continue(p, req[p], "compose_finish", Did(loc[p], "memcache.delete"))
    /\ UNCHANGED <<store, clock, ver, deleted>>

\* a test that forgets the key: every compose that leaves the entry visible
PingsWhenVisible(r, entry) == ~entry.hidden

\* if not key and not entry.hidden: self.ping()
Pings(r, entry) == r.key = NoArg /\ ~entry.hidden

\* self.ping() where it applies, with the fetches to the targets in failed
\* raising, then self.redirect("/" + entry.slug)
ComposeFinish(p) ==
    /\ Resumes(p, "compose_finish")
    /\ IF Pings(req[p], loc[p].entry)
       THEN \E failed \in SUBSET PingTargets :
              Respond(p, req[p], Did(loc[p], "ping"),
                      IF ping(failed) = "none"
                      THEN [Redirect(<<"/">> \o loc[p].entry.slug)
                              EXCEPT !.failed = failed]
                      ELSE [HTTPError(500) EXCEPT !.failed = failed])
       ELSE Respond(p, req[p], loc[p], Redirect(<<"/">> \o loc[p].entry.slug))
    /\ UNCHANGED <<store, cache, clock, ver, deleted>>

(***************************************************************************)
(* DeleteHandler.post                                                      *)
(***************************************************************************)
\* entry = Entry.get(key) of a handler that answers BadKeyError with 404 and
\* goes on to use the entity: None has no delete() and no hidden, so the
\* request ends in an AttributeError (500)
GetOr404(p, r, next) ==
    IF BadKeyError(r.key)
    THEN Respond(p, r, ArrivedLoc, [HTTPError(404) EXCEPT !.got = "BadKeyError"])
    ELSE IF EntryGet(r.key) = None
    THEN Respond(p, r, ArrivedLoc, [HTTPError(500) EXCEPT !.got = "None"])
    ELSE Continue(p, r, next, [ArrivedLoc EXCEPT !.entry = EntryGet(r.key)])

DeletePost(p) ==
    /\ Arrives(p)
    /\ \E user \in Users, key \in KeyArgs :
         LET r == AdminRequest("delete", "POST", user, key)
         IN  Admin(r) /\ GetOr404(p, r, "delete_delete")
    /\ UNCHANGED <<store, cache, clock, ver, deleted>>

\* entry.delete(); self.redirect("/")
DeleteDelete(p) ==
    /\ Resumes(p, "delete_delete")
    /\ store' = { e \in store : e.key # loc[p].entry.key }
    /\ deleted' = deleted \cup {loc[p].entry.key}
    /\ Respond(p, req[p], Did(loc[p], "delete"),
               [Redirect(<<"/">>) EXCEPT !.got = "entity"])
    /\ UNCHANGED <<cache, clock, ver>>

(***************************************************************************)
(* HideHandler.post                                                        *)
(***************************************************************************)
HidePost(p) ==
    /\ Arrives(p)
    /\ \E user \in Users, key \in KeyArgs, unhide \in HiddenArgs :
         LET r == [AdminRequest("hide", "POST", user, key) EXCEPT !.unhide = unhide]
         IN  Admin(r) /\ GetOr404(p, r, "hide_put")
    /\ UNCHANGED <<store, cache, clock, ver, deleted>>

\* entry.hidden = not bool(unhide); entry.put(); self.redirect("/")
HidePut(p) ==
    /\ Resumes(p, "hide_put")
    /\ LET entry == [loc[p].entry EXCEPT !.hidden = ~Truthy(req[p].unhide)]
       IN  /\ store' = Put(entry)
           /\ ver' = ver + 1
           /\ Respond(p, req[p],
                      Did([loc[p] EXCEPT !.entry = entry, !.myVer = ver + 1], "put"),
                      [Redirect(<<"/">>) EXCEPT !.got = "entity"])
    /\ UNCHANGED <<cache, clock, deleted>>

(***************************************************************************)
(* The specifications: Spec interleaves the steps of concurrent requests,  *)
(* SpecSerial handles requests one at a time.                              *)
(***************************************************************************)
Step(p) ==
    \/ AdministratorDenies(p)
    \/ HomeGet(p) \/ HomeFetch(p) \/ HomeAdd(p)
    \/ RecentEntries(p) \/ RecentFetch(p)
    \/ ArchiveGet(p) \/ TagGet(p) \/ CatchAllGet(p)
    \/ EditorGet(p)
    \/ ComposePost(p) \/ ComposeSlug(p) \/ ComposePut(p)
    \/ ComposeUncache(p) \/ ComposeFinish(p)
    \/ DeletePost(p) \/ DeleteDelete(p)
    \/ HidePost(p) \/ HidePut(p)

Next == \E p \in Procs : Step(p)

Spec == Init /\ [][Next]_vars

NextSerial ==
    \E p \in Procs :
        \/ Alone(p) /\ AdministratorDenies(p)
        \/ Alone(p) /\ HomeGet(p)
        \/ Alone(p) /\ HomeFetch(p)
        \/ Alone(p) /\ HomeAdd(p)
        \/ Alone(p) /\ RecentEntries(p)
        \/ Alone(p) /\ RecentFetch(p)
        \/ Alone(p) /\ ArchiveGet(p)
        \/ Alone(p) /\ TagGet(p)
        \/ Alone(p) /\ CatchAllGet(p)
        \/ Alone(p) /\ EditorGet(p)
        \/ Alone(p) /\ ComposePost(p)
        \/ Alone(p) /\ ComposeSlug(p)
        \/ Alone(p) /\ ComposePut(p)
        \/ Alone(p) /\ ComposeUncache(p)
        \/ Alone(p) /\ ComposeFinish(p)
        \/ Alone(p) /\ DeletePost(p)
        \/ Alone(p) /\ DeleteDelete(p)
        \/ Alone(p) /\ HidePost(p)
        \/ Alone(p) /\ HidePut(p)

SpecSerial == Init /\ [][NextSerial]_vars

(***************************************************************************)
(* What a request handled on its own returns in the current state          *)
(***************************************************************************)
Page(listing) == [entries |-> listing.entries, cursor |-> listing.cursor]

\* HomeHandler.get with the cursor argument cursor
HomePage(cursor) ==
    IF CacheHit(cursor) THEN Page(cache[cursor]) ELSE Page(Fetch(cursor, num_home))

\* ArchiveHandler.get with the cursor argument cursor
ArchivePage(cursor) == Page(Fetch(cursor, num_archive))

(***************************************************************************)
(* Properties.  last is the response the latest step sent, NoResp when it  *)
(* sent none.                                                              *)
(***************************************************************************)
Responded == last # NoResp

Quiet == \A p \in Procs : pc[p] = "idle"

ListingRoutes == {"home", "archive", "tag", "recent"}

ShownKeys == { last.entries[i].key : i \in 1..Len(last.entries) }

\* the response to a compose request that creates an entry (no key argument)
Created ==
    /\ Responded
    /\ last.req.route = "compose"
    /\ last.req.method = "POST"
    /\ last.req.key = NoArg
    /\ administrator(last.req.method, last.req.user) = "run"

\* the number of times the request ran ping()
PingRuns == Cardinality({ i \in 1..Len(last.trace) : last.trace[i] = "ping" })

\* C1: a GET / with no cursor returns a listing that was computed no earlier
\* than the latest create or update that had completed when the request
\* arrived (ver counts the put() calls; a listing carries the count at which
\* it was fetched).
FirstPageIsFresh ==
    (Responded /\ last.req.route = "home" /\ last.req.cursor = NoArg)
        => last.ver >= last.startDone

\* C2: a public listing response contains no entry whose stored hidden flag
\* is true when the response is produced.
NoHiddenEntryListed ==
    (Responded /\ last.req.route \in ListingRoutes)
        => \A e \in store : e.key \in ShownKeys => ~e.hidden

\* C3: with requests handled one at a time, no two stored entries share a
\* slug.
UniqueSlugs ==
    \A e1 \in store : \A e2 \in store : e1.slug = e2.slug => e1.key = e2.key

\* a second entry was composed under a title whose slug was taken, and got
\* the slug with a suffix
SuffixedSlugStored ==
    \E e1 \in store : \E e2 \in store :
        /\ e1.slug = <<"a", "-", "e">>
        /\ e2.slug \in { <<"a", "-", "e", "-">> \o suffix : suffix \in Suffixes }

\* C4: when a compose that creates an entry has answered, the slug it
\* redirects to belongs to one stored entry only, however the requests
\* interleave.
RacingComposesGetDistinctSlugs ==
    (Created /\ last.status = 302)
        => Cardinality(SlugQuery(Tail(last.location))) <= 1

\* C5: a request to /compose, /delete or /hide by anyone but an administrator
\* ends in the login redirect (GET, nobody signed in) or in 403, and the step
\* that answers it changes neither the store nor the cache.
NonAdminTurnedAway ==
    [][ (last' # NoResp /\ last'.req.route \in AdminRoutes
                        /\ last'.req.user # "admin")
        => /\ IF last'.req.user = "anonymous" /\ last'.req.method = "GET"
              THEN last'.status = 302 /\ last'.location = <<"login">>
              ELSE last'.status = 403
           /\ last'.trace = <<>>
           /\ store' = store
           /\ cache' = cache ]_vars

\* a signed-in user who is no administrator posted to /delete, got 403, and
\* the store still holds an entry
ReaderDeleteRefused ==
    /\ Responded
    /\ last.req.route = "delete"
    /\ last.req.method = "POST"
    /\ last.req.user = "reader"
    /\ last.status = 403
    /\ store # {}

\* C6: a compose that creates a non-hidden entry has put the entry, deleted
\* the canonical home cache key and answers with the redirect to the entry's
\* slug, whichever of the four pings failed.
PingFailuresAbsorbed ==
    (Created /\ ~Truthy(last.req.hidden))
        => /\ last.status = 302
           /\ last.trace = <<"put", "memcache.delete", "ping">>
           /\ \E e \in store : /\ last.location = <<"/">> \o e.slug
                               /\ e.title = last.req.title
                               /\ ~e.hidden
           /\ ~CacheHit(NoArg)

\* such a compose answered although all four pings failed
AllPingsFailed ==
    /\ Created
    /\ last.failed = PingTargets
    /\ last.status = 302

\* C7: ping() runs once in a compose that creates a non-hidden entry, after
\* its put(), and in no other request.
PingOncePerVisibleCreate ==
    Responded
        => /\ PingRuns = IF Created /\ ~Truthy(last.req.hidden) THEN 1 ELSE 0
           /\ \A i \in 1..Len(last.trace) :
                last.trace[i] = "ping" => \E j \in 1..(i - 1) : last.trace[j] = "put"

\* a compose created a non-hidden entry and ran ping() once
VisibleCreatePinged ==
    /\ Created
    /\ ~Truthy(last.req.hidden)
    /\ last.status = 302
    /\ PingRuns = 1

\* C8: an administrator's request to /delete or /hide with a key that names
\* no stored entry ends in 404.
MissingKeyIs404 ==
    (Responded /\ last.req.route \in {"delete", "hide"}
               /\ last.got \in {"None", "BadKeyError"})
        => last.status = 404

\* C9: between requests, a home or archive request with a rejected cursor
\* returns what the same request without a cursor returns.
RejectedCursorIsNoCursor ==
    Quiet => /\ HomePage(Malformed) = HomePage(NoArg)
             /\ ArchivePage(Malformed) = ArchivePage(NoArg)

\* C10: no response contains an entry whose delete had succeeded when the
\* request arrived.
DeletedNeverShown ==
    Responded => ShownKeys \cap last.startDeleted = {}

====
